---- MODULE Spec2Model ----
(***************************************************************************)
(* Model of the data access layer (repository container, generic Drizzle   *)
(* base repository, user and session repositories), of the storage        *)
(* helpers (S3/MinIO, Supabase) and of the PocketBase auth helpers of the  *)
(* next-starter repository.                                                *)
(*                                                                         *)
(* Each subsystem has its own specification over the shared variables:     *)
(*   SpecContainer  the singleton repository container                     *)
(*   SpecQuery      the generic query methods of DrizzleBaseRepository     *)
(*   SpecUsers      DrizzleUserRepository                                  *)
(*   SpecSessions   DrizzleSessionRepository                               *)
(*   SpecStorage    the S3/MinIO storage helper (AWS SDK and fetch)        *)
(*   SpecDelete     deleteFile of the S3/MinIO storage helper              *)
(*   SpecSupabase   the Supabase storage helper                            *)
(*   SpecAuth       the PocketBase auth helpers and sign-in / sign-up hooks*)
(*   SpecPaged      findPaginated beside concurrent creates and deletes    *)
(***************************************************************************)
EXTENDS Integers, Sequences, FiniteSets, TLC

VARIABLES
  repositoryContainer,  \* container.ts: the module-level singleton
  containersBuilt,      \* number of createRepositoryContainer() calls so far
  callLog,              \* history of container calls and what they returned
  users,                \* rows of the user table
  sessions,             \* rows of the session table
  now,                  \* the wall clock read by `new Date()`
  res,                  \* the last repository / storage call and its outcome
  objects,              \* the objects held by the S3/MinIO backend
  s3Bucket,             \* the S3_BUCKET environment variable
  pagedCall,            \* the findPaginated call in flight and its two reads
  authStore,            \* pbBrowser.authStore: the token it holds
  pbCookie,             \* the pb_auth cookie of document.cookie
  authFlows,            \* the useSignIn / useSignUp calls in flight
  authEvent,            \* the last step an auth call took
  pbAccounts,           \* the users collection of the PocketBase server
  tokensIssued          \* number of auth tokens the server has issued

authVars == <<authStore, pbCookie, authFlows, authEvent, pbAccounts,
              tokensIssued>>

vars == <<repositoryContainer, containersBuilt, callLog, users, sessions,
          now, res, objects, s3Bucket, pagedCall, authVars>>

(***************************************************************************)
(* Bounds of the model                                                     *)
(***************************************************************************)
MaxCalls == 5
MaxUsers == 2
MaxSessions == 2
MaxTime == 2
MaxLimit == 2
MaxOffset == 1
MaxObjects == 2
MaxFlows == 2
MaxTokens == 3

(***************************************************************************)
(* Generic helpers                                                         *)
(***************************************************************************)
Null == "null"

NoResult == [op |-> "none"]

NoCall == [pc |-> "idle"]

Min(a, b) == IF a < b THEN a ELSE b

Max(a, b) == IF a > b THEN a ELSE b

Range(s) == {s[i] : i \in DOMAIN s}

\* All orderings of the finite set S, as sequences without repetition.
Perms(S) ==
  {p \in [1..Cardinality(S) -> S] : \A i, j \in DOMAIN p : i # j => p[i] # p[j]}

(***************************************************************************)
(* container.ts                                                            *)
(***************************************************************************)
NoContainer == 0

\* createRepositoryContainer(): every call returns a new object; a container
\* is identified by the ordinal of the call that built it.
createRepositoryContainer(built) == built + 1

NeedsBuildAlways(container) == TRUE

\* `if (!repositoryContainer)`
NeedsBuild(container) == container = NoContainer

\* getRepositories()
GetRepositories ==
  /\ Len(callLog) < MaxCalls
  /\ LET build == NeedsBuild(repositoryContainer)
         c == IF build THEN createRepositoryContainer(containersBuilt)
                       ELSE repositoryContainer
     IN /\ repositoryContainer' = c
        /\ containersBuilt' = IF build THEN containersBuilt + 1 ELSE containersBuilt
        /\ callLog' = Append(callLog, [op |-> "getRepositories", ret |-> c,
                                       built |-> build])
  /\ UNCHANGED <<users, sessions, now, res, objects, s3Bucket, pagedCall, authVars>>

\* resetRepositoryContainer()
ResetRepositoryContainer ==
  /\ Len(callLog) < MaxCalls
  /\ repositoryContainer' = NoContainer
  /\ callLog' = Append(callLog, [op |-> "resetRepositoryContainer",
                                 ret |-> NoContainer, built |-> FALSE])
  /\ UNCHANGED <<containersBuilt, users, sessions, now, res, objects, s3Bucket, pagedCall, authVars>>

\* A direct call of the exported createRepositoryContainer(): the new
\* container is handed to the caller and the singleton is left alone.
CreateRepositoryContainerDirect ==
  /\ Len(callLog) < MaxCalls
  /\ containersBuilt' = containersBuilt + 1
  /\ callLog' = Append(callLog, [op |-> "createRepositoryContainer",
                                 ret |-> createRepositoryContainer(containersBuilt),
                                 built |-> TRUE])
  /\ UNCHANGED <<repositoryContainer, users, sessions, now, res, objects, s3Bucket, pagedCall, authVars>>

(***************************************************************************)
(* The caller awaits every repository and storage call: a call is issued   *)
(* only when no result is pending, and Return hands the pending result to  *)
(* the caller.                                                             *)
(***************************************************************************)
Idle == res = NoResult

Return ==
  /\ res # NoResult
  /\ res' = NoResult
  /\ UNCHANGED <<repositoryContainer, containersBuilt, callLog, users,
                 sessions, now, objects, s3Bucket, pagedCall, authVars>>

NoError == "none"

(***************************************************************************)
(* The user table (db/schema `user`, entity type User).  The columns the   *)
(* repository code writes are modelled; createdAt and updatedAt are filled *)
(* in by the schema and are left out.  Row ids stand for the UUIDs.        *)
(***************************************************************************)
UserIds == 1..(MaxUsers + 1)

Names == {"alice", "bob"}

Emails == {"a@x.io", "b@x.io"}

Images == {"pic.png"}

UserColumns == {"id", "name", "email", "emailVerified", "image"}

\* CreateUserData: name and email, optionally emailVerified and image.
CreateUserInputs ==
  [name : Names, email : Emails]
    \cup [name : Names, email : Emails, emailVerified : BOOLEAN]
    \cup [name : Names, email : Emails, image : Images \cup {Null}]
    \cup [name : Names, email : Emails, emailVerified : BOOLEAN,
          image : Images \cup {Null}]

Has(data, field) == field \in DOMAIN data

\* The users the query methods are exercised on: two share a name, two an
\* email, three are verified.
SeedUsers ==
  { [name |-> "alice", email |-> "a@x.io", emailVerified |-> TRUE],
    [name |-> "bob", email |-> "b@x.io"],
    [name |-> "alice", email |-> "b@x.io", emailVerified |-> TRUE,
     image |-> "pic.png"],
    [name |-> "bob", email |-> "a@x.io", emailVerified |-> TRUE,
     image |-> Null] }

(***************************************************************************)
(* drizzle-base-repository.ts, instantiated on the user table              *)
(***************************************************************************)
FilterOperator ==
  {"eq", "ne", "gt", "gte", "lt", "lte", "in", "notIn", "like", "ilike"}

\* Position of a value in the ordering of its column (text collation,
\* false before true).
ValueRank(field, value) ==
  IF field = "emailVerified" THEN (IF value THEN 1 ELSE 0)
  ELSE IF field = "id" THEN value
  ELSE CASE value = "alice" -> 1
         [] value = "bob" -> 2
         [] value = "a@x.io" -> 1
         [] value = "b@x.io" -> 2
         [] OTHER -> 0

\* `const column = this.table[filter.field]; if (!column) throw ...`
InvalidField(filter) == filter.field \notin UserColumns

\* `switch (filter.operator) { case "eq": ...; default: throw ... }`
SupportedOperator(operator) == operator = "eq"

FilterThrows(filter) ==
  InvalidField(filter) \/ ~SupportedOperator(filter.operator)

\* Index of the first filter buildWhereClause throws on, 0 when none.
FirstThrowing(filters) ==
  IF \E i \in DOMAIN filters : FilterThrows(filters[i])
  THEN CHOOSE i \in DOMAIN filters :
         /\ FilterThrows(filters[i])
         /\ \A k \in 1..(i - 1) : ~FilterThrows(filters[k])
  ELSE 0

\* buildWhereClause(filters): the error it throws, or the conjunction of
\* eq(column, value) conditions (undefined when there are no filters).
BuildWhereClause(filters) ==
  IF Len(filters) = 0
  THEN [error |-> NoError, defined |-> FALSE, conds |-> <<>>]
  ELSE LET bad == FirstThrowing(filters)
       IN IF bad = 0
          THEN [error |-> NoError, defined |-> TRUE, conds |-> filters]
          ELSE IF InvalidField(filters[bad])
          THEN [error |-> "Invalid field", defined |-> FALSE, conds |-> <<>>]
          ELSE [error |-> "Unsupported operator", defined |-> FALSE,
                conds |-> <<>>]

\* eq(column, value)
Eq(row, cond) == row[cond.field] = cond.value

\* and(...conditions) applied to a row; no where clause selects every row.
WhereHolds(row, where) ==
  where.defined => \A i \in DOMAIN where.conds : Eq(row, where.conds[i])

\* a sorts strictly before b under ORDER BY orderBy
SortsBefore(a, b, orderBy) ==
  \E i \in DOMAIN orderBy :
    /\ \A k \in 1..(i - 1) : a[orderBy[k].field] = b[orderBy[k].field]
    /\ LET ra == ValueRank(orderBy[i].field, a[orderBy[i].field])
           rb == ValueRank(orderBy[i].field, b[orderBy[i].field])
       IN IF orderBy[i].direction = "asc" THEN ra < rb ELSE rb < ra

OrderedBy(rows, orderBy) ==
  \A i, j \in DOMAIN rows : i < j => ~SortsBefore(rows[j], rows[i], orderBy)

\* .limit(limit).offset(offset)
LimitOffset(rows, limit, offset) ==
  SubSeq(rows, offset + 1, Min(Len(rows), offset + limit))

\* The row sequences a SELECT may return: the selected rows in any order the
\* ORDER BY clause allows (any order without one).
SelectFrom(table, where, orderBy) ==
  {p \in Perms({r \in table : WhereHolds(r, where)}) : OrderedBy(p, orderBy)}

OptFilters(options) ==
  IF Has(options, "filters") THEN options.filters ELSE <<>>

OptOrderBy(options) ==
  IF Has(options, "orderBy") THEN options.orderBy ELSE <<>>

\* The results findMany(options) may resolve to on table.
FindManyResults(table, options) ==
  LET where == BuildWhereClause(OptFilters(options))
  IN IF where.error # NoError
     THEN {[error |-> where.error, items |-> <<>>]}
     ELSE {[error |-> NoError,
            items |-> IF Has(options, "pagination")
                      THEN LimitOffset(p, options.pagination.limit,
                                       options.pagination.offset)
                      ELSE p] :
             p \in SelectFrom(table, where, OptOrderBy(options))}

CountAll(table, options) ==
  [error |-> NoError, count |-> Cardinality(table)]

\* The result count(options) resolves to on table.
CountResult(table, options) ==
  LET where == BuildWhereClause(OptFilters(options))
  IN IF where.error # NoError
     THEN [error |-> where.error, count |-> 0]
     ELSE [error |-> NoError,
           count |-> Cardinality({r \in table : WhereHolds(r, where)})]

\* `options.pagination?.limit ?? 0`, `options.pagination?.offset ?? 0`
ResultLimit(options) ==
  IF Has(options, "pagination") THEN options.pagination.limit ELSE 0

ResultOffset(options) ==
  IF Has(options, "pagination") THEN options.pagination.offset ELSE 0

(***************************************************************************)
(* Inputs of the query methods                                             *)
(***************************************************************************)
\* Filter lists every condition of which buildWhereClause translates.
EqFilterLists ==
  { <<>>,
    <<[field |-> "emailVerified", operator |-> "eq", value |-> TRUE]>>,
    <<[field |-> "email", operator |-> "eq", value |-> "a@x.io"]>>,
    <<[field |-> "emailVerified", operator |-> "eq", value |-> TRUE],
      [field |-> "name", operator |-> "eq", value |-> "alice"]>> }

\* One filter per remaining operator of FilterOperator, on a valid column.
OtherOperatorFilterLists ==
  { <<[field |-> "name", operator |-> "ne", value |-> "alice"]>>,
    <<[field |-> "name", operator |-> "gt", value |-> "alice"]>>,
    <<[field |-> "name", operator |-> "gte", value |-> "bob"]>>,
    <<[field |-> "name", operator |-> "lt", value |-> "bob"]>>,
    <<[field |-> "name", operator |-> "lte", value |-> "alice"]>>,
    <<[field |-> "image", operator |-> "in", value |-> {"pic.png"}]>>,
    <<[field |-> "image", operator |-> "notIn", value |-> {"pic.png"}]>>,
    <<[field |-> "name", operator |-> "like", value |-> "alice"]>>,
    <<[field |-> "name", operator |-> "ilike", value |-> "bob"]>>,
    <<[field |-> "emailVerified", operator |-> "eq", value |-> TRUE],
      [field |-> "name", operator |-> "ne", value |-> "bob"]>> }

\* A filter on something that is no column of the table.
InvalidFieldFilterLists ==
  { <<[field |-> "nickname", operator |-> "eq", value |-> "alice"]>>,
    <<[field |-> "nickname", operator |-> "ne", value |-> "alice"]>> }

OrderByInputs ==
  { <<[field |-> "name", direction |-> "asc"]>>,
    <<[field |-> "emailVerified", direction |-> "desc"],
      [field |-> "email", direction |-> "asc"]>> }

PaginationInputs == [limit : 0..MaxLimit, offset : 0..MaxOffset]

\* QueryOptions: filters, orderBy and pagination are each optional.
QueryOptionsInputs ==
  LET withFilters == {[filters |-> f] : f \in EqFilterLists} \cup {<<>>}
      withOrder == withFilters \cup
        {[x \in DOMAIN o \cup {"orderBy"} |->
            IF x = "orderBy" THEN ob ELSE o[x]] :
           o \in withFilters, ob \in OrderByInputs}
      withPage == withOrder \cup
        {[x \in DOMAIN o \cup {"pagination"} |->
            IF x = "pagination" THEN pg ELSE o[x]] :
           o \in withOrder, pg \in PaginationInputs}
  IN withPage \cup
       {[filters |-> f] :
          f \in OtherOperatorFilterLists \cup InvalidFieldFilterLists}

(***************************************************************************)
(* Query methods of DrizzleBaseRepository                                  *)
(***************************************************************************)
queryFrame == <<repositoryContainer, containersBuilt, callLog, users,
                sessions, now, objects, s3Bucket, pagedCall, authVars>>

\* findOne(options): the where clause and `.limit(1)`; `result[0] || null`.
FindOne(options) ==
  /\ Idle
  /\ LET where == BuildWhereClause(OptFilters(options))
     IN IF where.error # NoError
        THEN res' = [op |-> "findOne", options |-> options,
                     error |-> where.error, found |-> FALSE]
        ELSE \E p \in SelectFrom(users, where, <<>>) :
               res' = IF Len(p) = 0
                      THEN [op |-> "findOne", options |-> options,
                            error |-> NoError, found |-> FALSE]
                      ELSE [op |-> "findOne", options |-> options,
                            error |-> NoError, found |-> TRUE,
                            entity |-> p[1]]
  /\ UNCHANGED queryFrame

\* findMany(options)
FindMany(options) ==
  /\ Idle
  /\ \E r \in FindManyResults(users, options) :
       res' = [op |-> "findMany", options |-> options, error |-> r.error,
               items |-> r.items]
  /\ UNCHANGED queryFrame

\* count(options)
Count(options) ==
  /\ Idle
  /\ LET r == CountResult(users, options)
     IN res' = [op |-> "count", options |-> options, error |-> r.error,
                count |-> r.count]
  /\ UNCHANGED queryFrame

\* findPaginated(options) with no other database call running beside it:
\* Promise.all([findMany(options), count(options)]) reads one table state.
FindPaginated(options) ==
  /\ Idle
  /\ \E r \in FindManyResults(users, options) :
       LET c == CountResult(users, options)
       IN res' = IF r.error # NoError \/ c.error # NoError
                 THEN [op |-> "findPaginated", options |-> options,
                       error |-> IF r.error # NoError THEN r.error
                                                     ELSE c.error]
                 ELSE [op |-> "findPaginated", options |-> options,
                       error |-> NoError, items |-> r.items,
                       total |-> c.count, limit |-> ResultLimit(options),
                       offset |-> ResultOffset(options)]
  /\ UNCHANGED queryFrame

(***************************************************************************)
(* findPaginated beside other clients of the database.  Promise.all starts *)
(* findMany(options) and count(options) together; they are two separate    *)
(* statements with no transaction around them, the database runs them in   *)
(* either order and a create or delete of another client may run between   *)
(* them.  Each read records the table it saw.                              *)
(***************************************************************************)
pagedFrame == <<repositoryContainer, containersBuilt, callLog, users,
                sessions, now, res, objects, s3Bucket, authVars>>

PagedOptionsInputs ==
  { <<>>,
    [filters |-> <<[field |-> "emailVerified", operator |-> "eq",
                    value |-> TRUE]>>],
    [orderBy |-> <<[field |-> "name", direction |-> "asc"]>>,
     pagination |-> [limit |-> MaxLimit, offset |-> 0]],
    [filters |-> <<[field |-> "nickname", operator |-> "eq",
                    value |-> "alice"]>>] }

PagedSeedUsers ==
  { [name |-> "alice", email |-> "a@x.io", emailVerified |-> TRUE],
    [name |-> "bob", email |-> "b@x.io"] }

\* findPaginated(options) is called: both queries are started.
PagedStart(options) ==
  /\ pagedCall = NoCall
  /\ pagedCall' = [pc |-> "reading", options |-> options,
                   found |-> <<>>, counted |-> <<>>,
                   itemsAt |-> <<>>, totalAt |-> <<>>]
  /\ UNCHANGED pagedFrame

\* `const [items, totalCount] = await Promise.all([...])` and the return:
\* the call rejects with the error of a query that threw, else it resolves
\* with items, total, limit and offset.
PagedSettled(call) ==
  IF call.found = <<>> \/ call.counted = <<>>
  THEN call
  ELSE IF call.found[1].error # NoError \/ call.counted[1].error # NoError
  THEN [pc |-> "done", options |-> call.options,
        error |-> IF call.found[1].error # NoError
                  THEN call.found[1].error ELSE call.counted[1].error]
  ELSE [pc |-> "done", options |-> call.options, error |-> NoError,
        items |-> call.found[1].items, total |-> call.counted[1].count,
        limit |-> ResultLimit(call.options),
        offset |-> ResultOffset(call.options),
        itemsAt |-> call.itemsAt[1], totalAt |-> call.totalAt[1]]

\* The database runs the select of `this.findMany(options)`.
PagedFindMany ==
  /\ pagedCall.pc = "reading"
  /\ pagedCall.found = <<>>
  /\ \E r \in FindManyResults(users, pagedCall.options) :
       pagedCall' = PagedSettled([pagedCall EXCEPT !.found = <<r>>,
                                                   !.itemsAt = <<users>>])
  /\ UNCHANGED pagedFrame

\* The database runs the select of `this.count(options)`.
PagedCount ==
  /\ pagedCall.pc = "reading"
  /\ pagedCall.counted = <<>>
  /\ pagedCall' =
       PagedSettled([pagedCall EXCEPT
                       !.counted = <<CountResult(users, pagedCall.options)>>,
                       !.totalAt = <<users>>])
  /\ UNCHANGED pagedFrame

\* The caller takes the result of findPaginated.
PagedReturn ==
  /\ pagedCall.pc = "done"
  /\ pagedCall' = NoCall
  /\ UNCHANGED pagedFrame

(***************************************************************************)
(* user-repository.ts                                                      *)
(***************************************************************************)
userFrame == <<repositoryContainer, containersBuilt, callLog, sessions, now,
               objects, s3Bucket, pagedCall, authVars>>

StoredUserIds == {u.id : u \in users}

\* crypto.randomUUID(): an id no stored row has.
FreshUserId == CHOOSE id \in UserIds : id \notin StoredUserIds

\* `data.emailVerified ?? false`
EmailVerifiedOrDefault(data) ==
  IF Has(data, "emailVerified") THEN data.emailVerified ELSE FALSE

\* `data.image ?? null`
ImageOrDefault(data) ==
  IF Has(data, "image") THEN data.image ELSE Null

\* create(data): insert(...).values(...).returning()
CreateUser(data) ==
  /\ Idle
  /\ Cardinality(users) < MaxUsers
  /\ LET newUser == [id |-> FreshUserId, name |-> data.name,
                     email |-> data.email,
                     emailVerified |-> EmailVerifiedOrDefault(data),
                     image |-> ImageOrDefault(data)]
     IN /\ users' = users \cup {newUser}
        /\ res' = [op |-> "users.create", data |-> data, error |-> NoError,
                   entity |-> newUser]
  /\ UNCHANGED userFrame

\* delete(id) of the base repository
DeleteUser(id) ==
  /\ Idle
  /\ users' = {u \in users : u.id # id}
  /\ res' = [op |-> "users.delete", id |-> id, error |-> NoError]
  /\ UNCHANGED userFrame

\* UpdateUserData: any of name, email, emailVerified and image.
UpdateUserInputs ==
  [name : Names] \cup [email : Emails] \cup [emailVerified : BOOLEAN]
    \cup [image : Images \cup {Null}]
    \cup [name : Names, emailVerified : BOOLEAN]

\* `.set(data)` on one row: the columns named in data take data's values.
SetColumns(row, data) ==
  [c \in DOMAIN row |-> IF c \in DOMAIN data THEN data[c] ELSE row[c]]

UpdateEveryRow(table, id, data) == {SetColumns(r, data) : r \in table}

\* `update(table).set(data).where(eq(table.id, id))`: the table afterwards.
UpdateWhereId(table, id, data) ==
  {IF r.id = id THEN SetColumns(r, data) ELSE r : r \in table}

\* `.returning()` of that update: the updated rows.
UpdateReturning(table, id, data) ==
  {SetColumns(r, data) : r \in {x \in table : x.id = id}}

\* update(id, data) of the user repository, reported under the name op
\* (verifyEmail delegates to it).
UserUpdateAs(op, id, data) ==
  /\ Idle
  /\ LET returned == UpdateReturning(users, id, data)
     IN /\ users' = UpdateWhereId(users, id, data)
        /\ res' = IF returned = {}
                  THEN [op |-> op, id |-> id, data |-> data,
                        error |-> "User not found"]
                  ELSE [op |-> op, id |-> id, data |-> data,
                        error |-> NoError,
                        entity |-> CHOOSE r \in returned : TRUE]
  /\ UNCHANGED userFrame

UpdateUser(id, data) == UserUpdateAs("users.update", id, data)

\* verifyEmail(userId): `this.update(userId, { emailVerified: true })`
VerifyEmail(userId) ==
  UserUpdateAs("users.verifyEmail", userId, [emailVerified |-> TRUE])

FindFirstRow(table, email) ==
  IF table = {} THEN {<<>>} ELSE {<<r>> : r \in table}

\* The rows `select().from(user).where(eq(user.email, email)).limit(1)` may
\* return: one row with that email, or none.
FindByEmailRows(table, email) ==
  LET matching == {r \in table : r.email = email}
  IN IF matching = {} THEN {<<>>} ELSE {<<r>> : r \in matching}

\* findByEmail(email): `user || null`
FindByEmail(email) ==
  /\ Idle
  /\ \E rows \in FindByEmailRows(users, email) :
       res' = IF Len(rows) = 0
              THEN [op |-> "users.findByEmail", email |-> email,
                    error |-> NoError, found |-> FALSE]
              ELSE [op |-> "users.findByEmail", email |-> email,
                    error |-> NoError, found |-> TRUE, entity |-> rows[1]]
  /\ UNCHANGED queryFrame

\* emailExists(email): `(await this.findByEmail(email)) !== null`
EmailExists(email) ==
  /\ Idle
  /\ \E rows \in FindByEmailRows(users, email) :
       res' = [op |-> "users.emailExists", email |-> email,
               error |-> NoError, value |-> Len(rows) # 0]
  /\ UNCHANGED queryFrame

FindAllUsers(table) == Perms(table)

\* The row sequences findVerifiedUsers() may return.
FindVerifiedUsersRows(table) == Perms({r \in table : r.emailVerified = TRUE})

\* findVerifiedUsers()
FindVerifiedUsers ==
  /\ Idle
  /\ \E rows \in FindVerifiedUsersRows(users) :
       res' = [op |-> "users.findVerifiedUsers", error |-> NoError,
               items |-> rows]
  /\ UNCHANGED queryFrame

(***************************************************************************)
(* session-repository.ts.  Times are instants of the clock `now`.          *)
(***************************************************************************)
sessionFrame == <<repositoryContainer, containersBuilt, callLog, users, now,
                  objects, s3Bucket, pagedCall, authVars>>

readFrame == <<repositoryContainer, containersBuilt, callLog, users,
               sessions, now, objects, s3Bucket, pagedCall, authVars>>

SessionIds == 1..(MaxSessions + 1)

OwnerIds == {"u1", "u2"}

SessionTokens == {"t1", "t2"}

IpAddresses == {"10.0.0.1"}

UserAgents == {"curl"}

Times == 0..MaxTime

\* CreateSessionData: expiresAt, token and userId, optionally ipAddress and
\* userAgent.
CreateSessionInputs ==
  [expiresAt : Times, token : SessionTokens, userId : OwnerIds]
    \cup {[expiresAt |-> MaxTime, token |-> "t1", userId |-> "u1",
           ipAddress |-> "10.0.0.1", userAgent |-> "curl"]}

SeedSessions ==
  { [expiresAt |-> 1, token |-> "t1", userId |-> "u1"],
    [expiresAt |-> MaxTime, token |-> "t2", userId |-> "u2",
     ipAddress |-> "10.0.0.1", userAgent |-> "curl"] }

\* UpdateSessionData: any of expiresAt, token, ipAddress and userAgent.
UpdateSessionInputs ==
  { [expiresAt |-> MaxTime],
    [token |-> "t2"],
    [expiresAt |-> 0, token |-> "t1"],
    [ipAddress |-> Null, userAgent |-> "curl"] }

StoredSessionIds == {x.id : x \in sessions}

FreshSessionId == CHOOSE id \in SessionIds : id \notin StoredSessionIds

\* `data.ipAddress ?? null`, `data.userAgent ?? null`
OrNull(data, field) == IF Has(data, field) THEN data[field] ELSE Null

\* create(data)
CreateSession(data) ==
  /\ Idle
  /\ Cardinality(sessions) < MaxSessions
  /\ LET newSession == [id |-> FreshSessionId, expiresAt |-> data.expiresAt,
                        token |-> data.token, userId |-> data.userId,
                        ipAddress |-> OrNull(data, "ipAddress"),
                        userAgent |-> OrNull(data, "userAgent")]
     IN /\ sessions' = sessions \cup {newSession}
        /\ res' = [op |-> "sessions.create", data |-> data,
                   error |-> NoError, entity |-> newSession]
  /\ UNCHANGED sessionFrame

\* update(id, data) of the session repository
UpdateSession(id, data) ==
  /\ Idle
  /\ LET returned == UpdateReturning(sessions, id, data)
     IN /\ sessions' = UpdateWhereId(sessions, id, data)
        /\ res' = IF returned = {}
                  THEN [op |-> "sessions.update", id |-> id, data |-> data,
                        error |-> "Session not found"]
                  ELSE [op |-> "sessions.update", id |-> id, data |-> data,
                        error |-> NoError,
                        entity |-> CHOOSE r \in returned : TRUE]
  /\ UNCHANGED sessionFrame

\* delete(id) of the base repository
DeleteSession(id) ==
  /\ Idle
  /\ sessions' = {x \in sessions : x.id # id}
  /\ res' = [op |-> "sessions.delete", id |-> id, error |-> NoError]
  /\ UNCHANGED sessionFrame

\* The row sequences findByUserId(userId) may return.
FindByUserIdRows(table, userId) == Perms({x \in table : x.userId = userId})

\* findByUserId(userId)
FindByUserId(userId) ==
  /\ Idle
  /\ \E rows \in FindByUserIdRows(sessions, userId) :
       res' = [op |-> "sessions.findByUserId", userId |-> userId,
               error |-> NoError, items |-> rows]
  /\ UNCHANGED readFrame

NotBefore(expiresAt, time) == expiresAt >= time

\* gt(sessionTable.expiresAt, now)
ExpiresAfter(expiresAt, time) == expiresAt > time

\* The row sequences findActiveSessionsByUserId(userId) may return at time.
FindActiveSessionsRows(table, userId, time) ==
  Perms({x \in table : x.userId = userId /\ ExpiresAfter(x.expiresAt, time)})

\* findActiveSessionsByUserId(userId): `const now = new Date()`
FindActiveSessionsByUserId(userId) ==
  /\ Idle
  /\ \E rows \in FindActiveSessionsRows(sessions, userId, now) :
       res' = [op |-> "sessions.findActiveSessionsByUserId",
               userId |-> userId, at |-> now, error |-> NoError,
               items |-> rows]
  /\ UNCHANGED readFrame

DeleteWithoutWhere(table, userId) == {}

\* `delete(session).where(eq(session.userId, userId))`: the table afterwards.
DeleteWhereUserId(table, userId) == {x \in table : x.userId # userId}

\* deleteByUserId(userId)
DeleteByUserId(userId) ==
  /\ Idle
  /\ sessions' = DeleteWhereUserId(sessions, userId)
  /\ res' = [op |-> "sessions.deleteByUserId", userId |-> userId,
             error |-> NoError]
  /\ UNCHANGED sessionFrame

ExpiredOrExpiring(table, time) == {x \in table : time >= x.expiresAt}

\* The rows `where(gt(now, sessionTable.expiresAt))` selects.
Expired(table, time) == {x \in table : time > x.expiresAt}

\* deleteExpired(): `.returning({ id })`, `result.length`
DeleteExpired ==
  /\ Idle
  /\ LET deleted == Expired(sessions, now)
     IN /\ sessions' = sessions \ deleted
        /\ res' = [op |-> "sessions.deleteExpired", at |-> now,
                   error |-> NoError, count |-> Cardinality(deleted)]
  /\ UNCHANGED sessionFrame

\* Time passes between calls.
Tick ==
  /\ Idle
  /\ now < MaxTime
  /\ now' = now + 1
  /\ UNCHANGED <<repositoryContainer, containersBuilt, callLog, users,
                 sessions, res, objects, s3Bucket, pagedCall, authVars>>

(***************************************************************************)
(* The S3/MinIO storage helper `storage`, in its AWS SDK variant and       *)
(* its fetch variant.  An argument is a tagged value: undefined, a string, *)
(* a File or Buffer, or an options object.                                 *)
(***************************************************************************)
storageFrame == <<repositoryContainer, containersBuilt, callLog, users,
                  sessions, now, s3Bucket, pagedCall, authVars>>

Variants == {"sdk", "fetch"}

Undefined == [type |-> "undefined"]

Str(value) == [type |-> "string", value |-> value]

StringArgs == {"", "my-bucket", "a.txt"}

FileArgs ==
  { [type |-> "File", content |-> "png", mime |-> "image/png"],
    [type |-> "Buffer", content |-> "raw"] }

OptionsArgs ==
  { [type |-> "options", contentType |-> "text/plain"],
    [type |-> "options"] }

\* The calls of uploadFile its signature allows: (key), (key, file),
\* (key, file, options), (bucket, key), (bucket, key, file) and
\* (bucket, key, file, options).
UploadCalls ==
  {<<Str(k), Undefined, Undefined, Undefined>> : k \in StringArgs}
    \cup {<<Str(k), f, Undefined, Undefined>> : k \in StringArgs, f \in FileArgs}
    \cup {<<Str(k), f, o, Undefined>> :
            k \in StringArgs, f \in FileArgs, o \in OptionsArgs}
    \cup {<<Str(b), Str(k), Undefined, Undefined>> :
            b \in StringArgs, k \in StringArgs}
    \cup {<<Str(b), Str(k), f, Undefined>> :
            b \in StringArgs, k \in StringArgs, f \in FileArgs}
    \cup {<<Str(b), Str(k), f, o>> :
            b \in StringArgs, k \in StringArgs, f \in FileArgs,
            o \in OptionsArgs}

\* The calls of getPublicUrl and downloadFile: (key) and (bucket, key).
KeyCalls ==
  {<<Str(k), Undefined>> : k \in StringArgs}
    \cup {<<Str(b), Str(k)>> : b \in StringArgs, k \in StringArgs}

\* `process.env.S3_BUCKET || "uploads"`
defaultBucket == IF s3Bucket = Null \/ s3Bucket = "" THEN "uploads" ELSE s3Bucket

\* `options?.contentType`, `"contentType" in fileOrOptions ? ... : undefined`
ContentTypeOf(arg) ==
  IF arg.type = "options" /\ "contentType" \in DOMAIN arg
  THEN arg.contentType ELSE ""

\* uploadFile: "Handle overloaded parameters"
UploadOverloads(a1, a2, a3, a4) ==
  IF a2.type = "undefined"
  THEN [error |-> "File is required"]
  ELSE IF a2.type = "string"
  THEN [error |-> NoError, bucket |-> a1.value, key |-> a2.value,
        file |-> a3, contentType |-> ContentTypeOf(a4)]
  ELSE [error |-> NoError, bucket |-> defaultBucket, key |-> a1.value,
        file |-> a2, contentType |-> ContentTypeOf(a3)]

\* `key ? ... : ...` on an optional argument: undefined and the empty string
\* are falsy, every other string and every array (the empty one too) truthy.
Truthy(arg) ==
  \/ arg.type = "array"
  \/ arg.type = "string" /\ arg.value # ""

\* getPublicUrl, downloadFile:
\* `const bucket = key ? bucketOrKey : defaultBucket`
\* `const actualKey = key || bucketOrKey`
KeyOverloads(a1, a2) ==
  [bucket |-> IF Truthy(a2) THEN a1.value ELSE defaultBucket,
   key |-> IF Truthy(a2) THEN a2.value ELSE a1.value]

\* `${endpoint}/${bucket}/${key}`: the path segments after the endpoint.
UrlPath(bucket, key) == <<bucket, key>>

\* The object a path-style request path addresses.
Addressed(path) == [bucket |-> path[1], key |-> path[2]]

\* The request a variant sends for bucket and key: the SDK variant names
\* Bucket and Key in the command, the fetch variant puts them in the URL.
Request(variant, method, bucket, key) ==
  IF variant = "sdk"
  THEN [method |-> method, bucket |-> bucket, key |-> key]
  ELSE [method |-> method,
        bucket |-> Addressed(UrlPath(bucket, key)).bucket,
        key |-> Addressed(UrlPath(bucket, key)).key]

\* The backend stores no object under an empty bucket name or an empty key.
Storable(request) == request.bucket # "" /\ request.key # ""

HasObject(request) ==
  \E o \in objects : o.bucket = request.bucket /\ o.key = request.key

\* The body sent for file: the bytes of a File or Buffer; the SDK variant
\* passes an absent file on as an absent Body.
BodyOf(file) == IF file.type = "undefined" THEN "empty" ELSE file.content

\* `contentType || (file instanceof File ? file.type : <default>)`
SentContentType(variant, file, contentType) ==
  IF contentType # "" THEN contentType
  ELSE IF file.type = "File" THEN file.mime
  ELSE IF variant = "sdk" THEN "" ELSE "application/octet-stream"

\* uploadFile(bucketOrKey, keyOrFile, fileOrOptions, options)
UploadFile(variant, a1, a2, a3, a4) ==
  /\ Idle
  /\ LET r == UploadOverloads(a1, a2, a3, a4)
     IN IF r.error # NoError
        THEN /\ res' = [op |-> "uploadFile", variant |-> variant,
                        args |-> <<a1, a2, a3, a4>>, error |-> r.error,
                        sent |-> FALSE]
             /\ UNCHANGED objects
        ELSE IF variant = "fetch" /\ r.file.type = "undefined"
        THEN \* Buffer.from(undefined) throws before fetch is called
             /\ res' = [op |-> "uploadFile", variant |-> variant,
                        args |-> <<a1, a2, a3, a4>>, error |-> "TypeError",
                        sent |-> FALSE]
             /\ UNCHANGED objects
        ELSE LET req == Request(variant, "PUT", r.bucket, r.key)
                 stored == [bucket |-> req.bucket, key |-> req.key,
                            body |-> BodyOf(r.file)]
             IN \E ok \in IF Storable(req) THEN BOOLEAN ELSE {FALSE} :
                  /\ ok => (HasObject(req) \/ Cardinality(objects) < MaxObjects)
                  /\ objects' =
                       IF ok
                       THEN {o \in objects : ~(o.bucket = req.bucket
                                               /\ o.key = req.key)}
                              \cup {stored}
                       ELSE objects
                  /\ res' =
                       IF ok
                       THEN [op |-> "uploadFile", variant |-> variant,
                             args |-> <<a1, a2, a3, a4>>, error |-> NoError,
                             sent |-> TRUE, request |-> req,
                             contentType |->
                               SentContentType(variant, r.file, r.contentType),
                             key |-> r.key, bucket |-> r.bucket]
                       ELSE [op |-> "uploadFile", variant |-> variant,
                             args |-> <<a1, a2, a3, a4>>,
                             error |-> "Upload failed", sent |-> TRUE,
                             request |-> req]
  /\ UNCHANGED storageFrame

\* getPublicUrl(bucketOrKey, key): no request, the URL only.
GetPublicUrl(variant, a1, a2) ==
  /\ Idle
  /\ LET r == KeyOverloads(a1, a2)
     IN res' = [op |-> "getPublicUrl", variant |-> variant,
                args |-> <<a1, a2>>, error |-> NoError, sent |-> FALSE,
                url |-> UrlPath(r.bucket, r.key)]
  /\ UNCHANGED <<objects, storageFrame>>

\* downloadFile(bucketOrKey, key)
DownloadFile(variant, a1, a2) ==
  /\ Idle
  /\ LET r == KeyOverloads(a1, a2)
         req == Request(variant, "GET", r.bucket, r.key)
         found == {o \in objects : o.bucket = req.bucket /\ o.key = req.key}
     IN \E ok \in IF found # {} THEN BOOLEAN ELSE {FALSE} :
          res' = IF ok
                 THEN [op |-> "downloadFile", variant |-> variant,
                       args |-> <<a1, a2>>, error |-> NoError,
                       sent |-> TRUE, request |-> req,
                       blob |-> (CHOOSE o \in found : TRUE).body]
                 ELSE [op |-> "downloadFile", variant |-> variant,
                       args |-> <<a1, a2>>, error |-> "Download failed",
                       sent |-> TRUE, request |-> req]
  /\ UNCHANGED <<objects, storageFrame>>

\* An array of keys, as passed to deleteFile.
Keys(items) == [type |-> "array", items |-> items]

KeyArrays == {<<>>, <<"a.txt">>, <<"a.txt", "my-bucket">>, <<"a.txt", "a.txt">>}

\* The calls of deleteFile: (key), (bucket, key) and (bucket, keys).
DeleteCalls ==
  {<<Str(k), Undefined>> : k \in StringArgs}
    \cup {<<Str(b), Str(k)>> : b \in StringArgs, k \in StringArgs}
    \cup {<<Str(b), Keys(ks)>> : b \in StringArgs \ {""}, ks \in KeyArrays}

\* deleteFile:
\* `const bucket = keys ? bucketOrKeys : defaultBucket`
\* `const actualKeys = keys || bucketOrKeys`
\* `const keysArray = Array.isArray(actualKeys) ? actualKeys : [actualKeys]`
DeleteOverloads(a1, a2) ==
  LET actualKeys == IF Truthy(a2) THEN a2 ELSE a1
  IN [bucket |-> IF Truthy(a2) THEN a1.value ELSE defaultBucket,
      keysArray |-> IF actualKeys.type = "array"
                    THEN actualKeys.items ELSE <<actualKeys.value>>]

\* What the backend answers to one DELETE request: the object is gone
\* ("ok"), there was nothing to delete ("404"), or the request failed.
DeleteResponses == {"ok", "404", "failed"}

\* The responses the backend can give to the requests of one deleteFile
\* call, which run side by side: a 404 is for an object that is not there,
\* initially or because another request of the call removed it.
PossibleResponses(requests) ==
  {resp \in [DOMAIN requests -> DeleteResponses] :
     \A i \in DOMAIN requests :
        resp[i] = "404" =>
          \/ ~HasObject(requests[i])
          \/ \E j \in DOMAIN requests :
                j # i /\ requests[j] = requests[i] /\ resp[j] = "ok"}

\* The SDK's send rejects on every response that is not a success; the
\* fetch variant throws on `!response.ok && response.status !== 404`.
DeleteRejects(variant, response) ==
  IF variant = "sdk" THEN response # "ok" ELSE response = "failed"

\* deleteFile(bucketOrKeys, keys)
DeleteFile(variant, a1, a2) ==
  /\ Idle
  /\ LET r == DeleteOverloads(a1, a2)
         requests == [i \in DOMAIN r.keysArray |->
                        Request(variant, "DELETE", r.bucket, r.keysArray[i])]
     IN \E resp \in PossibleResponses(requests) :
          /\ objects' =
               {o \in objects :
                  ~\E i \in DOMAIN requests :
                      /\ resp[i] = "ok"
                      /\ o.bucket = requests[i].bucket
                      /\ o.key = requests[i].key}
          /\ res' = [op |-> "deleteFile", variant |-> variant,
                     args |-> <<a1, a2>>,
                     error |-> IF \E i \in DOMAIN resp :
                                     DeleteRejects(variant, resp[i])
                               THEN "Delete failed" ELSE NoError,
                     sent |-> requests # <<>>,
                     requests |-> requests, responses |-> resp]
  /\ UNCHANGED storageFrame

(***************************************************************************)
(* The Supabase storage helper `storage`.  Every operation hands its       *)
(* arguments to the Supabase client and gets back `{ data, error }`; the   *)
(* client is the environment, it reports an error or data.                 *)
(***************************************************************************)
SupabaseBuckets == {"avatars"}

SupabasePaths == {"a.png", "b.png"}

Blobs == {[type |-> "Blob", content |-> "png"]}

Num(n) == [type |-> "number", n |-> n]

ExpiresInArgs == {Undefined, Num(0), Num(120)}

UploadOptionsArgs ==
  { Undefined,
    [type |-> "options"],
    [type |-> "options", cacheControl |-> ""],
    [type |-> "options", cacheControl |-> "60", upsert |-> TRUE],
    [type |-> "options", contentType |-> "image/png", upsert |-> FALSE] }

PathsArgs ==
  {Str(p) : p \in SupabasePaths}
    \cup {Keys(ks) : ks \in {<<>>, <<"a.png">>, <<"a.png", "b.png">>}}

ListPathArgs == {Undefined, Str("")}

ListOptionsArgs == {Undefined, [type |-> "options", limit |-> 1]}

\* The errors the client reports.
StorageErrors == {"StorageApiError", "StorageUnknownError"}

\* `if (error) { throw error; } return data;`
ReturnDataAlways(data, error) == [error |-> NoError, value |-> data]

ThrowOrReturn(data, error) ==
  IF error # Null THEN [error |-> error] ELSE [error |-> NoError, value |-> data]

\* The result of a helper call: what was asked, what was passed to the
\* client, what the client reported and what the helper threw or returned.
SupabaseResult(op, args, call, data, error) ==
  LET out == ThrowOrReturn(data, error)
  IN IF out.error # NoError
     THEN [op |-> op, args |-> args, call |-> call,
           client |-> [error |-> error], error |-> out.error]
     ELSE [op |-> op, args |-> args, call |-> call,
           client |-> [error |-> error, data |-> data],
           error |-> NoError, value |-> out.value]

\* `options?.cacheControl || "3600"`
CacheControlOf(options) ==
  IF "cacheControl" \in DOMAIN options /\ options.cacheControl # ""
  THEN options.cacheControl ELSE "3600"

\* `options?.field`, undefined when options or the field is absent
OptionalField(options, field) ==
  IF field \in DOMAIN options THEN <<options[field]>> ELSE <<>>

SupabaseHas(bucket, path) ==
  \E o \in objects : o.bucket = bucket /\ o.key = path

\* uploadFile(bucket, path, file, options)
SupabaseUploadFile(bucket, path, file, options) ==
  /\ Idle
  /\ LET call == [method |-> "upload", bucket |-> bucket, path |-> path,
                  file |-> file,
                  cacheControl |-> CacheControlOf(options),
                  upsert |-> OptionalField(options, "upsert"),
                  contentType |-> OptionalField(options, "contentType")]
         args == <<Str(bucket), Str(path), file, options>>
         replaces == SupabaseHas(bucket, path)
         mayStore == IF replaces
                     THEN call.upsert = <<TRUE>>
                     ELSE Cardinality(objects) < MaxObjects
     IN \/ \E e \in StorageErrors :
             /\ res' = SupabaseResult("supabase.uploadFile", args, call, Null, e)
             /\ UNCHANGED objects
        \/ /\ mayStore
           /\ res' = SupabaseResult("supabase.uploadFile", args, call,
                                    [path |-> path], Null)
           /\ objects' =
                {o \in objects : ~(o.bucket = bucket /\ o.key = path)}
                  \cup {[bucket |-> bucket, key |-> path,
                         body |-> file.content]}
  /\ UNCHANGED storageFrame

DefaultExpiresIn == 60

\* createSignedUrl(bucket, path, expiresIn = 60)
SupabaseCreateSignedUrl(bucket, path, expiresIn) ==
  /\ Idle
  /\ LET seconds == IF expiresIn.type = "undefined"
                    THEN DefaultExpiresIn ELSE expiresIn.n
         call == [method |-> "createSignedUrl", bucket |-> bucket,
                  path |-> path, expiresIn |-> seconds]
         args == <<Str(bucket), Str(path), expiresIn>>
     IN \/ \E e \in StorageErrors :
             res' = SupabaseResult("supabase.createSignedUrl", args, call,
                                   Null, e)
        \/ /\ SupabaseHas(bucket, path)
           /\ res' = SupabaseResult("supabase.createSignedUrl", args, call,
                                    [signedUrl |-> <<bucket, path, seconds>>],
                                    Null)
  /\ UNCHANGED <<objects, storageFrame>>

\* `Array.isArray(paths) ? paths : [paths]`
PathsArray(paths) ==
  IF paths.type = "array" THEN paths.items ELSE <<paths.value>>

\* deleteFile(bucket, paths)
SupabaseDeleteFile(bucket, paths) ==
  /\ Idle
  /\ LET call == [method |-> "remove", bucket |-> bucket,
                  paths |-> PathsArray(paths)]
         args == <<Str(bucket), paths>>
         removed == {o \in objects :
                       /\ o.bucket = bucket
                       /\ \E i \in 1..Len(call.paths) : call.paths[i] = o.key}
     IN \/ \E e \in StorageErrors :
             /\ res' = SupabaseResult("supabase.deleteFile", args, call, Null, e)
             /\ UNCHANGED objects
        \/ /\ res' = SupabaseResult("supabase.deleteFile", args, call,
                                    {o.key : o \in removed}, Null)
           /\ objects' = objects \ removed
  /\ UNCHANGED storageFrame

\* listFiles(bucket, path, options)
SupabaseListFiles(bucket, path, options) ==
  /\ Idle
  /\ LET call == [method |-> "list", bucket |-> bucket,
                  path |-> IF path.type = "undefined" THEN <<>>
                           ELSE <<path.value>>,
                  limit |-> OptionalField(options, "limit"),
                  offset |-> OptionalField(options, "offset"),
                  sortBy |-> OptionalField(options, "sortBy")]
         args == <<Str(bucket), path, options>>
         listed == {o.key : o \in {x \in objects : x.bucket = bucket}}
     IN \/ \E e \in StorageErrors :
             res' = SupabaseResult("supabase.listFiles", args, call, Null, e)
        \/ \E data \in SUBSET listed :
             /\ call.limit = <<>> => data = listed
             /\ call.limit # <<>> => Cardinality(data) = Min(call.limit[1],
                                                             Cardinality(listed))
             /\ res' = SupabaseResult("supabase.listFiles", args, call,
                                      data, Null)
  /\ UNCHANGED <<objects, storageFrame>>

\* downloadFile(bucket, path)
SupabaseDownloadFile(bucket, path) ==
  /\ Idle
  /\ LET call == [method |-> "download", bucket |-> bucket, path |-> path]
         args == <<Str(bucket), Str(path)>>
         found == {o \in objects : o.bucket = bucket /\ o.key = path}
     IN \/ \E e \in StorageErrors :
             res' = SupabaseResult("supabase.downloadFile", args, call, Null, e)
        \/ \E o \in found :
             res' = SupabaseResult("supabase.downloadFile", args, call,
                                   [type |-> "Blob", content |-> o.body], Null)
  /\ UNCHANGED <<objects, storageFrame>>

(***************************************************************************)
(* shared/auth/client.ts and the hooks useSignIn and useSignUp (PocketBase *)
(* variant).  The browser holds the auth store of pbBrowser and the        *)
(* pb_auth cookie; the PocketBase server holds the accounts and issues a   *)
(* new token at every successful authWithPassword.  A hook call is in      *)
(* flight from its call to its return and other calls may run meanwhile.   *)
(***************************************************************************)
authFrame == <<repositoryContainer, containersBuilt, callLog, users,
               sessions, now, res, objects, s3Bucket, pagedCall>>

NoToken == 0

NoCookie == [present |-> FALSE]

Passwords == {"pw", "typo"}

SignInFormData == [email : Emails, password : Passwords]

SignUpFormData == [name : {"alice"}, email : Emails, password : {"pw"}]

FlowIds == 1..MaxFlows

FreshFlowId == CHOOSE id \in FlowIds : \A f \in authFlows : f.id # id

\* `pbBrowser.authStore.exportToCookie(...)`: the cookie carries the token
\* the store holds, the empty token when it holds none.
ExportNothing(store) == [present |-> TRUE, token |-> NoToken]

ExportToCookie(store) == [present |-> TRUE, token |-> store]

\* `document.cookie = "pb_auth=; path=/; expires=Thu, 01 Jan 1970 ..."`
KeepCookie(cookie) == cookie

ClearAuthCookie(cookie) == NoCookie

\* `pbBrowser.authStore.clear()`
AuthStoreClear(store) == NoToken

\* useSignIn: `signInAction(data)` up to `await signIn(...)`
SignInAction(data) ==
  /\ Cardinality(authFlows) < MaxFlows
  /\ authFlows' = authFlows \cup
       {[id |-> FreshFlowId, hook |-> "useSignIn", pc |-> "signIn",
         email |-> data.email, password |-> data.password]}
  /\ authEvent' = [op |-> "useSignIn", step |-> "call"]
  /\ UNCHANGED <<authStore, pbCookie, pbAccounts, tokensIssued, authFrame>>

\* useSignUp: `signUpAction(data)` up to `await signUp(...)`
SignUpAction(data) ==
  /\ Cardinality(authFlows) < MaxFlows
  /\ authFlows' = authFlows \cup
       {[id |-> FreshFlowId, hook |-> "useSignUp", pc |-> "signUp",
         email |-> data.email, password |-> data.password]}
  /\ authEvent' = [op |-> "useSignUp", step |-> "call"]
  /\ UNCHANGED <<authStore, pbCookie, pbAccounts, tokensIssued, authFrame>>

\* The call leaves through `catch`: `return { error: err }`.
ReturnError(flow) ==
  /\ authFlows' = authFlows \ {flow}
  /\ authEvent' = [op |-> flow.hook, step |-> "return", result |-> "error"]

\* signUp: `pbBrowser.collection("users").create(...)` answers.  The server
\* refuses an email it already has; any request may fail.
SignUp(flow) ==
  /\ flow.pc = "signUp"
  /\ \/ /\ \A a \in pbAccounts : a.email # flow.email
        /\ pbAccounts' = pbAccounts \cup
             {[email |-> flow.email, password |-> flow.password]}
        /\ authFlows' = (authFlows \ {flow}) \cup {[flow EXCEPT !.pc = "signIn"]}
        /\ authEvent' = [op |-> flow.hook, step |-> "signUp"]
     \/ /\ ReturnError(flow)
        /\ UNCHANGED pbAccounts
  /\ UNCHANGED <<authStore, pbCookie, tokensIssued, authFrame>>

\* signIn: `authWithPassword(email, password)` answers.  On success the
\* client saves the new token in the auth store; on failure it throws and
\* leaves the store alone.
SignIn(flow) ==
  /\ flow.pc = "signIn"
  /\ \/ /\ [email |-> flow.email, password |-> flow.password] \in pbAccounts
        /\ tokensIssued < MaxTokens
        /\ tokensIssued' = tokensIssued + 1
        /\ authStore' = tokensIssued + 1
        /\ authFlows' = (authFlows \ {flow}) \cup {[flow EXCEPT !.pc = "sync"]}
        /\ authEvent' = [op |-> flow.hook, step |-> "signIn"]
     \/ /\ ReturnError(flow)
        /\ UNCHANGED <<authStore, tokensIssued>>
  /\ UNCHANGED <<pbCookie, pbAccounts, authFrame>>

\* `syncAuthCookie()` and the return of the hook call: `{ data: ... }`
SyncAuthCookie(flow) ==
  /\ flow.pc = "sync"
  /\ pbCookie' = ExportToCookie(authStore)
  /\ authFlows' = authFlows \ {flow}
  /\ authEvent' = [op |-> flow.hook, step |-> "return", result |-> "data"]
  /\ UNCHANGED <<authStore, pbAccounts, tokensIssued, authFrame>>

\* signOut(): `pbBrowser.authStore.clear(); clearAuthCookie();`
SignOut ==
  /\ authStore' = AuthStoreClear(authStore)
  /\ pbCookie' = ClearAuthCookie(pbCookie)
  /\ authEvent' = [op |-> "signOut", step |-> "return",
                   hadToken |-> authStore # NoToken,
                   hadCookie |-> pbCookie # NoCookie,
                   inFlight |-> Cardinality(authFlows)]
  /\ UNCHANGED <<authFlows, pbAccounts, tokensIssued, authFrame>>

(***************************************************************************)
(* Initial state: nothing built, empty tables, empty buckets, nobody       *)
(* signed in.                                                              *)
(***************************************************************************)
Init ==
  /\ repositoryContainer = NoContainer
  /\ containersBuilt = 0
  /\ callLog = <<>>
  /\ users = {}
  /\ sessions = {}
  /\ now = 0
  /\ res = NoResult
  /\ objects = {}
  /\ s3Bucket = Null
  /\ pagedCall = NoCall
  /\ authStore = NoToken
  /\ pbCookie = NoCookie
  /\ authFlows = {}
  /\ authEvent = [op |-> "none"]
  /\ pbAccounts = {}
  /\ tokensIssued = 0

NextContainer ==
  \/ GetRepositories
  \/ ResetRepositoryContainer
  \/ CreateRepositoryContainerDirect

SpecContainer == Init /\ [][NextContainer]_vars

NextQuery ==
  \/ \E data \in SeedUsers : CreateUser(data)
  \/ \E id \in UserIds : DeleteUser(id)
  \/ \E options \in QueryOptionsInputs : FindOne(options)
  \/ \E options \in QueryOptionsInputs : FindMany(options)
  \/ \E options \in QueryOptionsInputs : Count(options)
  \/ \E options \in QueryOptionsInputs : FindPaginated(options)
  \/ Return

SpecQuery == Init /\ [][NextQuery]_vars

NextUsers ==
  \/ \E data \in CreateUserInputs : CreateUser(data)
  \/ \E id \in UserIds, data \in UpdateUserInputs : UpdateUser(id, data)
  \/ \E id \in UserIds : DeleteUser(id)
  \/ \E id \in UserIds : VerifyEmail(id)
  \/ \E email \in Emails : FindByEmail(email)
  \/ \E email \in Emails : EmailExists(email)
  \/ FindVerifiedUsers
  \/ Return

SpecUsers == Init /\ [][NextUsers]_vars

NextSessions ==
  \/ \E data \in CreateSessionInputs : CreateSession(data)
  \/ \E id \in SessionIds : DeleteSession(id)
  \/ \E userId \in OwnerIds : FindByUserId(userId)
  \/ \E userId \in OwnerIds : FindActiveSessionsByUserId(userId)
  \/ \E userId \in OwnerIds : DeleteByUserId(userId)
  \/ DeleteExpired
  \/ Tick
  \/ Return

SpecSessions == Init /\ [][NextSessions]_vars

\* update(id, data) of both repositories.  The two repositories never touch
\* each other's table, so a behaviour exercises one of them.
NextUserUpdates ==
  \/ \E data \in CreateUserInputs : CreateUser(data)
  \/ \E id \in UserIds, data \in UpdateUserInputs : UpdateUser(id, data)
  \/ Return

NextSessionUpdates ==
  \/ \E data \in SeedSessions : CreateSession(data)
  \/ \E id \in SessionIds, data \in UpdateSessionInputs :
       UpdateSession(id, data)
  \/ Return

NextUpdates ==
  \/ sessions = {} /\ NextUserUpdates
  \/ users = {} /\ NextSessionUpdates

SpecUpdates == Init /\ [][NextUpdates]_vars

\* The storage helper starts with S3_BUCKET unset, empty or naming a bucket.
InitStorage ==
  /\ repositoryContainer = NoContainer
  /\ containersBuilt = 0
  /\ callLog = <<>>
  /\ users = {}
  /\ sessions = {}
  /\ now = 0
  /\ res = NoResult
  /\ objects = {}
  /\ s3Bucket \in {Null, "", "media"}
  /\ pagedCall = NoCall
  /\ authStore = NoToken
  /\ pbCookie = NoCookie
  /\ authFlows = {}
  /\ authEvent = [op |-> "none"]
  /\ pbAccounts = {}
  /\ tokensIssued = 0

NextStorage ==
  \/ \E v \in Variants, c \in UploadCalls : UploadFile(v, c[1], c[2], c[3], c[4])
  \/ \E v \in Variants, c \in KeyCalls : GetPublicUrl(v, c[1], c[2])
  \/ \E v \in Variants, c \in KeyCalls : DownloadFile(v, c[1], c[2])
  \/ Return

SpecStorage == InitStorage /\ [][NextStorage]_vars

\* The uploads that fill the buckets for deleteFile: (key, file) under the
\* default bucket and (bucket, key, file) under a named one.
SeedUploads ==
  {<<Str(k), [type |-> "Buffer", content |-> "raw"], Undefined, Undefined>> :
     k \in {"a.txt", "my-bucket"}}
    \cup {<<Str("my-bucket"), Str("a.txt"),
            [type |-> "Buffer", content |-> "raw"], Undefined>>}

NextDelete ==
  \/ \E v \in Variants, c \in SeedUploads : UploadFile(v, c[1], c[2], c[3], c[4])
  \/ \E v \in Variants, c \in DeleteCalls : DeleteFile(v, c[1], c[2])
  \/ Return

SpecDelete == InitStorage /\ [][NextDelete]_vars

NextSupabase ==
  \/ \E b \in SupabaseBuckets, p \in SupabasePaths, f \in Blobs,
        o \in UploadOptionsArgs : SupabaseUploadFile(b, p, f, o)
  \/ \E b \in SupabaseBuckets, p \in SupabasePaths, e \in ExpiresInArgs :
       SupabaseCreateSignedUrl(b, p, e)
  \/ \E b \in SupabaseBuckets, ps \in PathsArgs : SupabaseDeleteFile(b, ps)
  \/ \E b \in SupabaseBuckets, p \in ListPathArgs, o \in ListOptionsArgs :
       SupabaseListFiles(b, p, o)
  \/ \E b \in SupabaseBuckets, p \in SupabasePaths : SupabaseDownloadFile(b, p)
  \/ Return

SpecSupabase == Init /\ [][NextSupabase]_vars

NextAuth ==
  \/ \E data \in SignInFormData : SignInAction(data)
  \/ \E data \in SignUpFormData : SignUpAction(data)
  \/ \E flow \in authFlows : SignUp(flow)
  \/ \E flow \in authFlows : SignIn(flow)
  \/ \E flow \in authFlows : SyncAuthCookie(flow)
  \/ SignOut

SpecAuth == Init /\ [][NextAuth]_vars

\* findPaginated of one client beside the creates and deletes of others.  A
\* settled result is taken by its caller before the table changes again.
NextPaged ==
  \/ pagedCall.pc # "done" /\ \E data \in PagedSeedUsers : CreateUser(data)
  \/ pagedCall.pc # "done" /\ \E id \in UserIds : DeleteUser(id)
  \/ Return
  \/ \E options \in PagedOptionsInputs : PagedStart(options)
  \/ PagedFindMany
  \/ PagedCount
  \/ PagedReturn

SpecPaged == Init /\ [][NextPaged]_vars

IsGet(i) == callLog[i].op = "getRepositories"

IsReset(i) == callLog[i].op = "resetRepositoryContainer"

NoResetBetween(i, j) == \A k \in (i + 1)..(j - 1) : ~IsReset(k)

NoGetBetween(i, j) == \A k \in (i + 1)..(j - 1) : ~IsGet(k)

(***************************************************************************)
(* C1: getRepositories is a singleton accessor.  Any two getRepositories   *)
(* calls with no resetRepositoryContainer call between them return the     *)
(* same container, of the getRepositories calls between two resets at most *)
(* one runs createRepositoryContainer, and the first getRepositories call  *)
(* after a reset returns a container that no earlier call returned.        *)
(***************************************************************************)
C1_Singleton ==
  \A i, j \in DOMAIN callLog :
    /\ (i < j /\ IsGet(i) /\ IsGet(j) /\ NoResetBetween(i, j))
         => /\ callLog[i].ret = callLog[j].ret
            /\ ~callLog[j].built
    /\ (i < j /\ IsReset(i) /\ IsGet(j) /\ NoResetBetween(i, j) /\ NoGetBetween(i, j))
         => /\ callLog[j].built
            /\ \A k \in 1..(j - 1) : callLog[k].ret # callLog[j].ret

C1_Witness ==
  \E i, j, k \in DOMAIN callLog :
    /\ i < j /\ j < k
    /\ IsGet(i) /\ IsReset(j) /\ IsGet(k)
    /\ \E m \in DOMAIN callLog : m > k /\ IsGet(m)

(***************************************************************************)
(* What a row must look like to satisfy a filter, for every operator of    *)
(* FilterOperator (like and ilike patterns without wildcards).             *)
(***************************************************************************)
Satisfies(row, filter) ==
  LET v == row[filter.field]
      rank == ValueRank(filter.field, v)
  IN CASE filter.operator = "eq" -> v = filter.value
       [] filter.operator = "ne" -> v # filter.value
       [] filter.operator = "gt" -> rank > ValueRank(filter.field, filter.value)
       [] filter.operator = "gte" -> rank >= ValueRank(filter.field, filter.value)
       [] filter.operator = "lt" -> rank < ValueRank(filter.field, filter.value)
       [] filter.operator = "lte" -> rank <= ValueRank(filter.field, filter.value)
       [] filter.operator = "in" -> v \in filter.value
       [] filter.operator = "notIn" -> v # Null /\ v \notin filter.value
       [] filter.operator = "like" -> v = filter.value
       [] filter.operator = "ilike" -> v = filter.value

RequestedFilters(options) ==
  IF "filters" \in DOMAIN options THEN options.filters ELSE <<>>

SatisfiesAll(row, options) ==
  \A i \in DOMAIN RequestedFilters(options) :
    Satisfies(row, RequestedFilters(options)[i])

NoRepeats(rows) == \A i, j \in DOMAIN rows : i # j => rows[i] # rows[j]

(***************************************************************************)
(* C2: findPaginated(options) returns items that are a result of           *)
(* findMany(options): the stored entities matching options.filters, in an  *)
(* order options.orderBy allows, cut to the page (offset rows skipped, at  *)
(* most limit rows kept); total is the number of all stored entities       *)
(* matching options.filters whatever the pagination; limit and offset are  *)
(* those of options.pagination, or 0 and 0 when pagination is absent.      *)
(***************************************************************************)
C2_FindPaginated ==
  (res.op = "findPaginated" /\ res.error = NoError) =>
    LET o == res.options
        matching == {u \in users : SatisfiesAll(u, o)}
        paged == "pagination" \in DOMAIN o
        order == IF "orderBy" \in DOMAIN o THEN o.orderBy ELSE <<>>
        skip == IF paged THEN o.pagination.offset ELSE 0
        keep == IF paged
                THEN Min(o.pagination.limit,
                         Max(0, Cardinality(matching) - skip))
                ELSE Cardinality(matching)
    IN /\ res.total = Cardinality(matching)
       /\ res.limit = (IF paged THEN o.pagination.limit ELSE 0)
       /\ res.offset = (IF paged THEN o.pagination.offset ELSE 0)
       /\ \E all \in Perms(matching) :
            /\ OrderedBy(all, order)
            /\ res.items = [i \in 1..keep |-> all[skip + i]]
       /\ \E r \in FindManyResults(users, o) : r.items = res.items

C2_Witness ==
  /\ res.op = "findPaginated"
  /\ res.error = NoError
  /\ "pagination" \in DOMAIN res.options
  /\ "orderBy" \in DOMAIN res.options
  /\ Len(RequestedFilters(res.options)) > 0
  /\ res.offset = 1
  /\ Len(res.items) = 1
  /\ res.total = 2

(***************************************************************************)
(* C3: a filter passed to findOne, findMany or count may use any operator  *)
(* of FilterOperator on a valid field: the query raises no error and       *)
(* returns only entities that satisfy every filter (count counts exactly   *)
(* those).                                                                 *)
(***************************************************************************)
C3_AnyOperator ==
  LET valid == \A i \in DOMAIN RequestedFilters(res.options) :
                 /\ RequestedFilters(res.options)[i].field \in UserColumns
                 /\ RequestedFilters(res.options)[i].operator \in FilterOperator
  IN (res.op \in {"findOne", "findMany", "count"} /\ valid) =>
       /\ res.error = NoError
       /\ res.op = "findMany" =>
            \A k \in DOMAIN res.items : SatisfiesAll(res.items[k], res.options)
       /\ (res.op = "findOne" /\ res.found) =>
            SatisfiesAll(res.entity, res.options)
       /\ res.op = "count" =>
            res.count = Cardinality({u \in users : SatisfiesAll(u, res.options)})

UpdateContract(before, after, r, notFound) ==
  LET stored == {x \in before : x.id = r.id}
  IN IF stored = {}
     THEN r.error = notFound /\ after = before
     ELSE /\ r.error = NoError
          /\ \A old \in stored :
               /\ DOMAIN r.entity = DOMAIN old
               /\ \A c \in DOMAIN old :
                    r.entity[c] = IF c \in DOMAIN r.data THEN r.data[c]
                                                        ELSE old[c]
               /\ after = (before \ {old}) \cup {r.entity}

C4_UpdateStep ==
  /\ res'.op = "users.update" =>
       UpdateContract(users, users', res', "User not found")
  /\ res'.op = "sessions.update" =>
       UpdateContract(sessions, sessions', res', "Session not found")

C5_ActiveSessions ==
  res.op = "sessions.findActiveSessionsByUserId" =>
    /\ res.error = NoError
    /\ NoRepeats(res.items)
    /\ Range(res.items) =
         {x \in sessions : x.userId = res.userId /\ x.expiresAt > res.at}

C5_Witness ==
  /\ res.op = "sessions.findActiveSessionsByUserId"
  /\ Len(res.items) = 1
  /\ \E x \in sessions : x.userId = res.userId /\ x.expiresAt = res.at

C6_DeleteExpiredStep ==
  res'.op = "sessions.deleteExpired" =>
    LET gone == {x \in sessions : x.expiresAt < now}
    IN /\ sessions' = sessions \ gone
       /\ res'.count = Cardinality(gone)
       /\ Cardinality(Expired(sessions', now')) = 0

(***************************************************************************)
(* C6: deleteExpired removes exactly the sessions whose expiresAt is       *)
(* earlier than the time of the call, returns how many it removed and      *)
(* leaves every other session unchanged; a second deleteExpired at the     *)
(* same time finds nothing to remove and returns 0.                        *)
(***************************************************************************)
C6_DeleteExpired == [][C6_DeleteExpiredStep]_vars

C6_Witness ==
  /\ res.op = "sessions.deleteExpired"
  /\ res.count >= 1
  /\ \E x \in sessions : x.expiresAt = res.at

C7_DeleteByUserIdStep ==
  res'.op = "sessions.deleteByUserId" =>
    /\ FindByUserIdRows(sessions', res'.userId) = {<<>>}
    /\ FindActiveSessionsRows(sessions', res'.userId, now') = {<<>>}
    /\ sessions' \subseteq sessions
    /\ \A x \in sessions : x.userId # res'.userId => x \in sessions'

(***************************************************************************)
(* C7: deleteByUserId(userId) logs the user out everywhere: afterwards     *)
(* findByUserId(userId) and findActiveSessionsByUserId(userId) return      *)
(* nothing, and the sessions of every other user are stored unchanged.     *)
(***************************************************************************)
C7_DeleteByUserId == [][C7_DeleteByUserIdStep]_vars

C7_Witness ==
  /\ res.op = "sessions.deleteByUserId"
  /\ \E x \in sessions : x.userId # res.userId /\ x.expiresAt > now

C8_VerifyEmailStep ==
  /\ res'.op = "users.verifyEmail" =>
       LET stored == {x \in users : x.id = res'.id}
       IN IF stored = {}
          THEN res'.error = "User not found" /\ users' = users
          ELSE /\ res'.error = NoError
               /\ \A old \in stored :
                    /\ res'.entity = [old EXCEPT !.emailVerified = TRUE]
                    /\ users' = (users \ {old}) \cup {res'.entity}
               /\ \A rows \in FindVerifiedUsersRows(users') :
                    res'.entity \in Range(rows)
  /\ res'.op = "users.findVerifiedUsers" =>
       /\ res'.error = NoError
       /\ NoRepeats(res'.items)
       /\ Range(res'.items) = {u \in users : u.emailVerified}

(***************************************************************************)
(* C8: verifyEmail(userId) for a stored user sets that user's              *)
(* emailVerified to true, changes nothing else and returns the user, and   *)
(* findVerifiedUsers then contains that user; for an id that is not stored *)
(* it raises 'User not found' and changes nothing.  findVerifiedUsers      *)
(* returns exactly the stored users with emailVerified true, each once.    *)
(***************************************************************************)
C8_VerifyEmail == [][C8_VerifyEmailStep]_vars

C8_Witness ==
  /\ res.op = "users.verifyEmail"
  /\ res.error = NoError
  /\ \E other \in users : other.id # res.id /\ ~other.emailVerified

(***************************************************************************)
(* C9: emailExists(email) is true exactly when a user with that email is   *)
(* stored, which is exactly when findByEmail(email) returns a user (one    *)
(* with that email): true after create with that email, false when no      *)
(* stored user has it.  create stores the user it returns, with            *)
(* emailVerified false and image null when data leaves them out.           *)
(***************************************************************************)
C9_EmailExists ==
  /\ res.op = "users.emailExists" =>
       res.value = (\E u \in users : u.email = res.email)
  /\ res.op = "users.findByEmail" =>
       /\ res.found = (\E u \in users : u.email = res.email)
       /\ res.found => (res.entity \in users /\ res.entity.email = res.email)
  /\ res.op = "users.create" =>
       /\ res.entity \in users
       /\ res.entity.name = res.data.name
       /\ res.entity.email = res.data.email
       /\ res.entity.emailVerified =
            (IF "emailVerified" \in DOMAIN res.data
             THEN res.data.emailVerified ELSE FALSE)
       /\ res.entity.image =
            (IF "image" \in DOMAIN res.data THEN res.data.image ELSE Null)
       /\ \A rows \in FindByEmailRows(users, res.data.email) : Len(rows) # 0
  /\ \A email \in Emails :
       (\A u \in users : u.email # email) =>
          FindByEmailRows(users, email) = {<<>>}

C9_Witness ==
  /\ res.op = "users.emailExists"
  /\ res.value = FALSE
  /\ users # {}

ConfiguredBucket ==
  IF s3Bucket = Null \/ s3Bucket = "" THEN "uploads" ELSE s3Bucket

\* The bucket and key a call names, by the type of its second argument.
NamedByType(args) ==
  IF args[2].type = "string"
  THEN [bucket |-> args[1].value, key |-> args[2].value]
  ELSE [bucket |-> ConfiguredBucket, key |-> args[1].value]

(***************************************************************************)
(* C10: uploadFile, getPublicUrl and downloadFile resolve their overloads  *)
(* by the type of the arguments.  uploadFile(key, file[, options]) writes  *)
(* under the default bucket (S3_BUCKET, else 'uploads') and                *)
(* uploadFile(bucket, key, file[, options]) under the named bucket, and    *)
(* the key and bucket it returns are those of the object written;          *)
(* getPublicUrl and downloadFile address the key in the default bucket     *)
(* when called with (key) and the key in the named bucket when called with *)
(* (bucket, key).                                                          *)
(***************************************************************************)
C10_Overloads ==
  /\ (res.op = "uploadFile" /\ res.error = NoError) =>
       /\ res.bucket = NamedByType(res.args).bucket
       /\ res.key = NamedByType(res.args).key
       /\ res.request.bucket = res.bucket
       /\ res.request.key = res.key
       /\ \E o \in objects : o.bucket = res.bucket /\ o.key = res.key
  /\ res.op = "getPublicUrl" =>
       res.url = <<NamedByType(res.args).bucket, NamedByType(res.args).key>>
  /\ res.op = "downloadFile" =>
       /\ res.request.bucket = NamedByType(res.args).bucket
       /\ res.request.key = NamedByType(res.args).key

\* C10 restricted to getPublicUrl and downloadFile calls whose key argument,
\* when given, is not the empty string.
C10_NonEmptyKey ==
  (res.op \in {"uploadFile", "getPublicUrl", "downloadFile"}
     /\ (res.op # "uploadFile" /\ res.args[2].type = "string"
           => res.args[2].value # ""))
    => C10_Overloads

\* A call carries a file when one of its arguments is a File or a Buffer.
CarriesFile(args) ==
  \E i \in DOMAIN args : args[i].type \in {"File", "Buffer"}

(***************************************************************************)
(* C11: uploadFile called without a file argument, as uploadFile(key) or   *)
(* as uploadFile(bucket, key), raises 'File is required' and sends no      *)
(* request to the storage backend.                                         *)
(***************************************************************************)
C11_FileRequired ==
  (res.op = "uploadFile" /\ ~CarriesFile(res.args)) =>
     /\ res.error = "File is required"
     /\ ~res.sent

\* C11 for the one-argument form uploadFile(key) alone.
C11_KeyOnly ==
  (res.op = "uploadFile" /\ res.args[2].type = "undefined") =>
     /\ res.error = "File is required"
     /\ ~res.sent

\* The bucket and the keys a deleteFile call names, by the type of its
\* second argument.
DeleteNamed(args) ==
  [bucket |-> IF args[2].type = "undefined"
              THEN ConfiguredBucket ELSE args[1].value,
   keys |-> IF args[2].type = "undefined" THEN {args[1].value}
            ELSE IF args[2].type = "string" THEN {args[2].value}
            ELSE {args[2].items[i] : i \in DOMAIN args[2].items}]

C12_DeleteFileStep ==
  res'.op = "deleteFile" =>
    LET named == DeleteNamed(res'.args)
    IN /\ res'.error = NoError =>
            /\ \A o \in objects' :
                  ~(o.bucket = named.bucket /\ o.key \in named.keys)
            /\ objects' \subseteq objects
            /\ \A o \in objects \ objects' :
                  o.bucket = named.bucket /\ o.key \in named.keys
       /\ res'.variant = "fetch" =>
            (res'.error = NoError
               <=> \A i \in DOMAIN res'.responses :
                      res'.responses[i] \in {"ok", "404"})

(***************************************************************************)
(* C12: deleteFile(key) deletes the key from the default bucket and        *)
(* deleteFile(bucket, keyOrKeys) the key, or every key of the array, from  *)
(* the named bucket: when the call resolves every listed key is absent     *)
(* from that bucket and no other object has been deleted.  In the fetch    *)
(* variant the call resolves exactly when every response is a success or a *)
(* 404, so deleting an absent key is not an error.                         *)
(***************************************************************************)
C12_DeleteFile == [][C12_DeleteFileStep]_vars

\* C12 for the calls whose second argument is not the empty string.
C12_NonEmptyKey ==
  [][(res'.op = "deleteFile" /\ res'.args[2] # Str("")) => C12_DeleteFileStep]_vars

SupabaseOps ==
  {"supabase.uploadFile", "supabase.createSignedUrl", "supabase.deleteFile",
   "supabase.listFiles", "supabase.downloadFile"}

(***************************************************************************)
(* C13: every operation of the Supabase storage helper throws the error    *)
(* the client reported, returning nothing, when the client reports an      *)
(* error, and otherwise returns the client's data unchanged; deleteFile    *)
(* passes the client an array of paths, the given array or the single      *)
(* given path; createSignedUrl asks for 60 seconds when no expiry is       *)
(* given, and for the given expiry otherwise.                              *)
(***************************************************************************)
C13_Supabase ==
  res.op \in SupabaseOps =>
    /\ res.client.error # Null =>
         (res.error = res.client.error /\ "value" \notin DOMAIN res)
    /\ res.client.error = Null =>
         (res.error = NoError /\ res.value = res.client.data)
    /\ res.op = "supabase.deleteFile" =>
         /\ DOMAIN res.call.paths = 1..Len(res.call.paths)
         /\ res.args[2].type = "array" => res.call.paths = res.args[2].items
         /\ res.args[2].type = "string" =>
              res.call.paths = <<res.args[2].value>>
    /\ res.op = "supabase.createSignedUrl" =>
         res.call.expiresIn =
           (IF res.args[3].type = "undefined" THEN 60 ELSE res.args[3].n)

C13_Witness ==
  /\ res.op = "supabase.deleteFile"
  /\ res.args[2].type = "string"
  /\ res.error = NoError
  /\ res.value # {}

CarriesToken(cookie) == cookie.present /\ cookie.token # 0

(***************************************************************************)
(* C14: signOut clears the browser auth store and the pb_auth cookie: in   *)
(* the state right after signOut the auth store holds no token (it is not  *)
(* valid) and the pb_auth cookie carries no auth token, whatever the state *)
(* before and whatever calls are in flight.                                *)
(***************************************************************************)
C14_SignOut ==
  authEvent.op = "signOut" => (authStore = 0 /\ ~CarriesToken(pbCookie))

C14_Witness ==
  /\ authEvent.op = "signOut"
  /\ authEvent.hadToken
  /\ authEvent.hadCookie
  /\ authEvent.inFlight > 0

(***************************************************************************)
(* C15: whenever no useSignIn.signIn or useSignUp.signUp call is in flight *)
(* (every call made so far has completed, successfully or not, signOut     *)
(* calls among them in any interleaving), the pb_auth cookie carries an    *)
(* auth token if and only if the browser auth store holds one, and it is   *)
(* the same token.                                                         *)
(***************************************************************************)
C15_AuthSync ==
  authFlows = {} =>
    /\ CarriesToken(pbCookie) <=> authStore # 0
    /\ CarriesToken(pbCookie) => pbCookie.token = authStore

C15_Witness ==
  /\ authFlows = {}
  /\ authEvent.op = "useSignUp"
  /\ authEvent.step = "return"
  /\ authEvent.result = "data"
  /\ tokensIssued > 1
  /\ CarriesToken(pbCookie)

MatchingIn(table, options) == {u \in table : SatisfiesAll(u, options)}

(***************************************************************************)
(* C16: in every findPaginated result, also when creates and deletes run   *)
(* concurrently with it, total counts the entities matching the filters in *)
(* the database state that items was read from, so items.length <= total.  *)
(***************************************************************************)
C16_SameState ==
  (pagedCall.pc = "done" /\ pagedCall.error = NoError) =>
    /\ pagedCall.total =
         Cardinality(MatchingIn(pagedCall.itemsAt, pagedCall.options))
    /\ Len(pagedCall.items) <= pagedCall.total

(***************************************************************************)
(* C16 as amended: in every findPaginated result items holds, without      *)
(* repeats, entities matching the filters in the database state its        *)
(* findMany query read, and total counts the entities matching the filters *)
(* in the database state its count query read; when the two queries read   *)
(* the same state (no create or delete took effect between them)           *)
(* items.length <= total holds.                                            *)
(***************************************************************************)
C16_TwoReads ==
  (pagedCall.pc = "done" /\ pagedCall.error = NoError) =>
    /\ \A i \in DOMAIN pagedCall.items :
         pagedCall.items[i] \in MatchingIn(pagedCall.itemsAt, pagedCall.options)
    /\ NoRepeats(pagedCall.items)
    /\ pagedCall.total =
         Cardinality(MatchingIn(pagedCall.totalAt, pagedCall.options))
    /\ pagedCall.itemsAt = pagedCall.totalAt =>
         Len(pagedCall.items) <= pagedCall.total

C16_Witness ==
  /\ pagedCall.pc = "done"
  /\ pagedCall.error = NoError
  /\ pagedCall.itemsAt # pagedCall.totalAt
  /\ "filters" \in DOMAIN pagedCall.options
  /\ Len(pagedCall.items) > pagedCall.total

====
